---------------------------- MODULE Spec2Model ----------------------------
(***************************************************************************)
(* The Chinchon rules engine (package chinchon): the GameState aggregate,  *)
(* the six action variants and GameState.RunAction, as a state machine.    *)
(*                                                                         *)
(* The variable `state` is the engine's *GameState (main_wasm.go keeps it  *)
(* in the global `state`).  Go maps keyed by player id are functions on    *)
(* {0, 1}; slices are sequences whose last element is the top of a pile.   *)
(* RoundsLog[r] of the code (0-indexed, with the sentinel at 0) is         *)
(* RoundsLog[r + 1] here.                                                  *)
(***************************************************************************)
EXTENDS Integers, Sequences, FiniteSets, TLC

VARIABLES
    state,        \* the GameState
    lastAction,   \* the action of the latest accepted call (NoAction after New)
    lastErr,      \* the error the latest call returned ("" is nil)
    lastCall,     \* "New", "RunAction" or "Run": which entry point ran last,
                  \* or the name of the function a query called
    steps,        \* number of calls that were accepted so far
    result        \* what the latest query returned, with its arguments

vars == <<state, lastAction, lastErr, lastCall, steps, result>>

----------------------------------------------------------------------------
(* Bounds of the model *)

\* accepted calls explored from New
MaxSteps == 6

\* the small win threshold passed to WithMaxPoints, next to the default
SmallMaxPoints == 15

\* the longest hand given to a query
MaxHandLen == 8

----------------------------------------------------------------------------
(* Constants of the program *)

DefaultMaxPoints == 100

DRAW_FROM_DRAW_PILE == "draw_from_draw_pile"
DRAW_FROM_DISCARD_PILE == "draw_from_discard_pile"
DISCARD_CARD == "discard_card"
MELD_CARDS == "meld_cards"
KNOCK == "knock"
CONFIRM_ROUND_FINISHED == "confirm_round_finished"

MeldTypeSet == "set"
MeldTypeRun == "run"

errActionNotPossible == "action not possible"
errGameIsEnded == "game is ended"
errNotYourTurn == "not your turn"

PlayerIDs == {0, 1}

----------------------------------------------------------------------------
(* Cards and the deck *)

Numbers == <<1, 2, 3, 4, 5, 6, 7, 10, 11, 12>>
Suits == <<"oro", "copa", "espada", "basto">>

Card(n, s) == [Number |-> n, Suit |-> s]

\* the 40 cards, suit by suit
newDeck ==
    [i \in 1..40 |-> Card(Numbers[((i - 1) % 10) + 1], Suits[((i - 1) \div 10) + 1])]

Range(s) == {s[i] : i \in 1..Len(s)}

RECURSIVE Concat(_)
Concat(ss) == IF ss = <<>> THEN <<>> ELSE Head(ss) \o Concat(Tail(ss))

\* F applied to the value of x, with x evaluated once
Then(x, F(_)) == CHOOSE r \in {F(v) : v \in {x}} : TRUE


----------------------------------------------------------------------------
(* Pile *)

IsEmpty(p) == Len(p.Cards) = 0

\* Pile.TopCard: the zero Card when the pile is empty (the error is dropped
\* by the only caller, ToClientGameState)
TopCard(p) == IF Len(p.Cards) = 0 THEN Card(0, "") ELSE p.Cards[Len(p.Cards)]

\* Pile.DrawCard on a non-empty pile: the card and the pile left
DrawCard(p) ==
    [card |-> p.Cards[Len(p.Cards)],
     pile |-> [Cards |-> SubSeq(p.Cards, 1, Len(p.Cards) - 1)]]

AddCard(p, card) == [Cards |-> Append(p.Cards, card)]

----------------------------------------------------------------------------
(* Deadwood *)

\* deadwood that counts every card at its number
calculateDeadwoodPoints_FaceValue(hand, melds) ==
    LET meldedCards == UNION {Range(melds[i].Cards) : i \in 1..Len(melds)}
        pts(card) == IF card \in meldedCards THEN 0 ELSE card.Number
        sum[i \in 0..Len(hand)] == IF i = 0 THEN 0 ELSE sum[i - 1] + pts(hand[i])
    IN sum[Len(hand)]

calculateDeadwoodPoints(hand, melds) ==
    LET meldedCards == UNION {Range(melds[i].Cards) : i \in 1..Len(melds)}
        pts(card) == IF card \in meldedCards THEN 0
                     ELSE IF card.Number >= 1 /\ card.Number <= 7 THEN card.Number
                     ELSE 10
        sum[i \in 0..Len(hand)] == IF i = 0 THEN 0 ELSE sum[i - 1] + pts(hand[i])
    IN sum[Len(hand)]

----------------------------------------------------------------------------
(* Actions: records carrying the fields of the Go structs *)

NewActionDrawFromDrawPile(playerID) ==
    [Name |-> DRAW_FROM_DRAW_PILE, PlayerID |-> playerID]
NewActionDrawFromDiscardPile(playerID) ==
    [Name |-> DRAW_FROM_DISCARD_PILE, PlayerID |-> playerID]
NewActionDiscardCard(card, playerID) ==
    [Name |-> DISCARD_CARD, PlayerID |-> playerID, Card |-> card]
NewActionMeldCards(cards, meldType, playerID) ==
    [Name |-> MELD_CARDS, PlayerID |-> playerID, Cards |-> cards, MeldType |-> meldType]
NewActionKnock(playerID) ==
    [Name |-> KNOCK, PlayerID |-> playerID]
NewActionConfirmRoundFinished(playerID) ==
    [Name |-> CONFIRM_ROUND_FINISHED, PlayerID |-> playerID]

NoAction == [Name |-> "", PlayerID |-> -1]

\* no query has been made
NoResult == <<>>

\* json.Marshal of an action: the object keyed by the structs' json tags
SerializeAction(a) ==
    IF a.Name = DISCARD_CARD
    THEN [name |-> a.Name, playerID |-> a.PlayerID, card |-> a.Card]
    ELSE IF a.Name = MELD_CARDS
    THEN [name |-> a.Name, playerID |-> a.PlayerID, cards |-> a.Cards,
          meldType |-> a.MeldType]
    ELSE [name |-> a.Name, playerID |-> a.PlayerID]

_serializeActions(as) == [i \in 1..Len(as) |-> SerializeAction(as[i])]

\* the in-place sort of isValidRun and generateRunMeldActions: the cards in
\* ascending order of Number
RECURSIVE SortByNumber(_)
SortByNumber(cards) ==
    IF Len(cards) <= 1 THEN cards
    ELSE LET m == CHOOSE i \in 1..Len(cards) :
                      /\ \A j \in 1..Len(cards) : cards[i].Number <= cards[j].Number
                      /\ \A j \in 1..(i - 1) : cards[j].Number > cards[i].Number
             rest == [j \in 1..(Len(cards) - 1) |-> IF j < m THEN cards[j] ELSE cards[j + 1]]
         IN <<cards[m]>> \o SortByNumber(rest)

\* ActionMeldCards.isValidSet / GameState.isValidSet
isValidSet(cards) ==
    /\ Len(cards) >= 3
    /\ \A i \in 1..Len(cards) : cards[i].Number = cards[1].Number
    /\ \A i, j \in 1..Len(cards) : i # j => cards[i].Suit # cards[j].Suit

isValidRun(cards) ==
    /\ Len(cards) >= 3
    /\ \A i \in 1..Len(cards) : cards[i].Suit = cards[1].Suit
    /\ LET sortedCards == SortByNumber(cards)
       IN \A i \in 2..Len(sortedCards) :
              sortedCards[i].Number = sortedCards[i - 1].Number + 1

isValidMeld(a) ==
    /\ Len(a.Cards) >= 3
    /\ IF a.MeldType = MeldTypeSet THEN isValidSet(a.Cards)
       ELSE IF a.MeldType = MeldTypeRun THEN isValidRun(a.Cards)
       ELSE FALSE


----------------------------------------------------------------------------
(* Meld-candidate generator.  Go visits the keys of rankGroups and of      *)
(* suitGroups in an unspecified order: `ord` is the order of one call.     *)

RECURSIVE generateCombinations(_, _)
generateCombinations(cards, k) ==
    IF k = 0 THEN << <<>> >>
    ELSE IF Len(cards) < k THEN <<>>
    ELSE LET first == cards[1]
             remaining == Tail(cards)
             subCombos == generateCombinations(remaining, k - 1)
         IN [i \in 1..Len(subCombos) |-> <<first>> \o subCombos[i]]
                \o generateCombinations(remaining, k)

generateSetMeldActions(hand, playerID, ord) ==
    LET group(n) == SelectSeq(hand, LAMBDA c : c.Number = n)
        ofRank(n) ==
            IF Len(group(n)) >= 3
            THEN LET combinations == generateCombinations(group(n), 3)
                     valid == SelectSeq(combinations, isValidSet)
                 IN [i \in 1..Len(valid) |->
                        NewActionMeldCards(valid[i], MeldTypeSet, playerID)]
            ELSE <<>>
    IN Concat([i \in 1..Len(ord.ranks) |-> ofRank(ord.ranks[i])])

\* a run that goes on while the numbers ascend, consecutive or not
findConsecutiveRuns_AnyAscending(sortedCards) ==
    LET n == Len(sortedCards)
        \* the index where the maximal run starting at `start` ends
        runEnd(start) ==
            CHOOSE e \in start..n :
                /\ \A j \in start..(e - 1) :
                       sortedCards[j + 1].Number > sortedCards[j].Number
                /\ e = n \/ sortedCards[e + 1].Number <= sortedCards[e].Number
        subRuns(start) ==
            LET e == runEnd(start)
                runLength == e - start + 1
                runCards == SubSeq(sortedCards, start, e)
                ofLength(length) ==
                    [startIdx \in 1..(runLength - length + 1) |->
                        SubSeq(runCards, startIdx, startIdx + length - 1)]
            IN IF runLength >= 3
               THEN Concat([l \in 1..(runLength - 2) |-> ofLength(l + 2)])
               ELSE <<>>
        walk[i \in 1..(n + 1)] ==
            IF i > n THEN <<>> ELSE subRuns(i) \o walk[runEnd(i) + 1]
    IN walk[1]

findConsecutiveRuns(sortedCards) ==
    LET n == Len(sortedCards)
        \* the index where the maximal run starting at `start` ends
        runEnd(start) ==
            CHOOSE e \in start..n :
                /\ \A j \in start..(e - 1) :
                       sortedCards[j + 1].Number = sortedCards[j].Number + 1
                /\ e = n \/ sortedCards[e + 1].Number # sortedCards[e].Number + 1
        subRuns(start) ==
            LET e == runEnd(start)
                runLength == e - start + 1
                runCards == SubSeq(sortedCards, start, e)
                ofLength(length) ==
                    [startIdx \in 1..(runLength - length + 1) |->
                        SubSeq(runCards, startIdx, startIdx + length - 1)]
            IN IF runLength >= 3
               THEN Concat([l \in 1..(runLength - 2) |-> ofLength(l + 2)])
               ELSE <<>>
        walk[i \in 1..(n + 1)] ==
            IF i > n THEN <<>> ELSE subRuns(i) \o walk[runEnd(i) + 1]
    IN walk[1]

generateRunMeldActions(hand, playerID, ord) ==
    LET group(s) == SelectSeq(hand, LAMBDA c : c.Suit = s)
        ofSuit(s) ==
            IF Len(group(s)) >= 3
            THEN LET runs == findConsecutiveRuns(SortByNumber(group(s)))
                 IN [i \in 1..Len(runs) |->
                        NewActionMeldCards(runs[i], MeldTypeRun, playerID)]
            ELSE <<>>
    IN Concat([i \in 1..Len(ord.suits) |-> ofSuit(ord.suits[i])])

generatePossibleMeldActions(g, playerID, ord) ==
    LET hand == g.Players[playerID].Hand.Revealed
    IN generateSetMeldActions(hand, playerID, ord)
           \o generateRunMeldActions(hand, playerID, ord)


----------------------------------------------------------------------------
(* The action variants: IsPossible, Run, YieldsTurn *)

\* the live entry of the rounds log
CurrentRound(g) == g.RoundNumber + 1

\* one Hand per player kept from round to round: the assignment is seen in
\* the HandsDealt of every round
SetRevealed_SameHandEveryRound(g, playerID, cards) ==
    [g EXCEPT !.Players[playerID].Hand.Revealed = cards,
              !.RoundsLog =
                  [i \in 1..Len(g.RoundsLog) |->
                      IF i >= 2
                      THEN [g.RoundsLog[i] EXCEPT !.HandsDealt[playerID].Revealed = cards]
                      ELSE g.RoundsLog[i]]]

\* Assigning Hand.Revealed of a player.  startNewRound stores the same *Hand
\* in Players[p].Hand and in the live round log's HandsDealt[p], so the
\* assignment is seen through both.
SetRevealed(g, playerID, cards) ==
    [g EXCEPT !.Players[playerID].Hand.Revealed = cards,
              !.RoundsLog[CurrentRound(g)].HandsDealt[playerID].Revealed = cards]

\* a draw pile nobody can draw from
ActionDrawFromDrawPile_IsPossible_Never(a, g) == FALSE

ActionDrawFromDrawPile_IsPossible(a, g) ==
    /\ g.TurnPlayerID = a.PlayerID
    /\ ~g.HasDrawnThisTurn
    /\ ~IsEmpty(g.DrawPile)
    /\ ~g.IsRoundFinished

\* a draw that takes the bottom card of the draw pile
ActionDrawFromDrawPile_Run_TakesBottom(a, g) ==
    LET g1 == [g EXCEPT !.DrawPile = [Cards |-> Tail(g.DrawPile.Cards)]]
        g2 == SetRevealed(g1, a.PlayerID,
                          Append(g1.Players[a.PlayerID].Hand.Revealed,
                                 Head(g.DrawPile.Cards)))
    IN [g2 EXCEPT !.HasDrawnThisTurn = TRUE]

ActionDrawFromDrawPile_Run(a, g) ==
    LET d == DrawCard(g.DrawPile)
        g1 == [g EXCEPT !.DrawPile = d.pile]
        g2 == SetRevealed(g1, a.PlayerID,
                          Append(g1.Players[a.PlayerID].Hand.Revealed, d.card))
    IN [g2 EXCEPT !.HasDrawnThisTurn = TRUE]

ActionDrawFromDiscardPile_IsPossible(a, g) ==
    /\ g.TurnPlayerID = a.PlayerID
    /\ ~g.HasDrawnThisTurn
    /\ ~IsEmpty(g.DiscardPile)
    /\ ~g.IsRoundFinished

ActionDrawFromDiscardPile_Run(a, g) ==
    LET d == DrawCard(g.DiscardPile)
        g1 == [g EXCEPT !.DiscardPile = d.pile]
        g2 == SetRevealed(g1, a.PlayerID,
                          Append(g1.Players[a.PlayerID].Hand.Revealed, d.card))
    IN [g2 EXCEPT !.HasDrawnThisTurn = TRUE]

\* a discard that does not ask for a draw before it
ActionDiscardCard_IsPossible_NoDrawCheck(a, g) ==
    IF \/ g.TurnPlayerID # a.PlayerID
       \/ g.HasDiscardedThisTurn
       \/ g.IsRoundFinished
    THEN FALSE
    ELSE a.Card \in Range(g.Players[a.PlayerID].Hand.Revealed)

ActionDiscardCard_IsPossible(a, g) ==
    IF \/ g.TurnPlayerID # a.PlayerID
       \/ ~g.HasDrawnThisTurn
       \/ g.HasDiscardedThisTurn
       \/ g.IsRoundFinished
    THEN FALSE
    ELSE a.Card \in Range(g.Players[a.PlayerID].Hand.Revealed)

\* a discard that puts the card on the pile and leaves it in the hand
ActionDiscardCard_Run_KeepsCard(a, g) ==
    [g EXCEPT !.DiscardPile = AddCard(g.DiscardPile, a.Card),
              !.HasDiscardedThisTurn = TRUE]

ActionDiscardCard_Run(a, g) ==
    LET newHand == SelectSeq(g.Players[a.PlayerID].Hand.Revealed,
                             LAMBDA card : card # a.Card)
        g1 == SetRevealed(g, a.PlayerID, newHand)
    IN [g1 EXCEPT !.DiscardPile = AddCard(g1.DiscardPile, a.Card),
                  !.HasDiscardedThisTurn = TRUE]

ActionMeldCards_IsPossible(a, g) ==
    IF g.TurnPlayerID # a.PlayerID \/ g.IsRoundFinished
    THEN FALSE
    ELSE /\ \A i \in 1..Len(a.Cards) :
                a.Cards[i] \in Range(g.Players[a.PlayerID].Hand.Revealed)
         /\ isValidMeld(a)

\* a meld that lays the cards down and leaves them in the hand
ActionMeldCards_Run_KeepsHand(a, g) ==
    [g EXCEPT !.Players[a.PlayerID].Melds =
                  Append(@, [Type |-> a.MeldType, Cards |-> a.Cards])]

ActionMeldCards_Run(a, g) ==
    LET newHand == SelectSeq(g.Players[a.PlayerID].Hand.Revealed,
                             LAMBDA card : card \notin Range(a.Cards))
        meld == [Type |-> a.MeldType, Cards |-> a.Cards]
        g1 == SetRevealed(g, a.PlayerID, newHand)
    IN [g1 EXCEPT !.Players[a.PlayerID].Melds = Append(@, meld)]

\* a Knock that asks nothing of the deadwood
hasValidMelds_Always(a, g) == TRUE

\* ActionKnock.hasValidMelds
hasValidMelds(a, g) ==
    calculateDeadwoodPoints(g.Players[a.PlayerID].Hand.Revealed,
                            g.Players[a.PlayerID].Melds) <= 10

ActionKnock_IsPossible(a, g) ==
    IF \/ g.TurnPlayerID # a.PlayerID
       \/ ~g.HasDrawnThisTurn
       \/ ~g.HasDiscardedThisTurn
       \/ g.IsRoundFinished
    THEN FALSE
    ELSE hasValidMelds(a, g)

\* a score without the bonus for a winner with no deadwood
roundPoints_NoGinBonus(winnerDeadwood, loserDeadwood, knocked, winner) ==
    (loserDeadwood - winnerDeadwood)
        + (IF knocked # -1 /\ knocked # winner THEN 10 ELSE 0)

\* calculateRoundScore, the points awarded; `knocked` is roundLog.KnockedPlayerID
roundPoints(winnerDeadwood, loserDeadwood, knocked, winner) ==
    (loserDeadwood - winnerDeadwood)
        + (IF winnerDeadwood = 0 THEN 25 ELSE 0)
        + (IF knocked # -1 /\ knocked # winner THEN 10 ELSE 0)

calculateRoundScore(g) ==
    LET roundLog == g.RoundsLog[CurrentRound(g)]
        player0Deadwood ==
            calculateDeadwoodPoints(g.Players[0].Hand.Revealed, g.Players[0].Melds)
        player1Deadwood ==
            calculateDeadwoodPoints(g.Players[1].Hand.Revealed, g.Players[1].Melds)
        oneWins == player1Deadwood < player0Deadwood
        tie == player1Deadwood = player0Deadwood
        winnerDeadwood == IF oneWins THEN player1Deadwood ELSE player0Deadwood
        loserDeadwood == IF oneWins THEN player0Deadwood ELSE player1Deadwood
        winner == IF oneWins THEN 1
                  ELSE IF tie THEN (IF roundLog.KnockedPlayerID = 0 THEN 1 ELSE 0)
                  ELSE 0
        loser == 1 - winner
        points == roundPoints(winnerDeadwood, loserDeadwood,
                              roundLog.KnockedPlayerID, winner)
    IN [g EXCEPT !.RoundsLog[CurrentRound(g)] =
                     [@ EXCEPT !.WinnerDeadwoodPoints = winnerDeadwood,
                               !.LoserDeadwoodPoints = loserDeadwood,
                               !.WinnerPlayerID = winner,
                               !.LoserPlayerID = loser,
                               !.PointsAwarded = points],
                 !.Players[winner].Score = @ + points]

\* a knock that scores the round and leaves it open
ActionKnock_Run_RoundStaysOpen(a, g) ==
    LET g1 == [g EXCEPT !.KnockedPlayerID = a.PlayerID]
        g2 == calculateRoundScore(g1)
    IN [g2 EXCEPT !.RoundsLog[CurrentRound(g)] =
                      [@ EXCEPT !.KnockedPlayerID = a.PlayerID,
                                !.MeldsDealt = [p \in PlayerIDs |-> g2.Players[p].Melds]]]

ActionKnock_Run(a, g) ==
    LET g1 == [g EXCEPT !.KnockedPlayerID = a.PlayerID]
        g2 == calculateRoundScore(g1)
    IN [g2 EXCEPT !.RoundsLog[CurrentRound(g)] =
                      [@ EXCEPT !.KnockedPlayerID = a.PlayerID,
                                !.MeldsDealt = [p \in PlayerIDs |-> g2.Players[p].Melds]],
                  !.IsRoundFinished = TRUE]

\* ActionConfirmRoundFinished: legal when the round is finished, whoever the
\* actor is; records the actor in the confirmed-set
ActionConfirmRoundFinished_IsPossible(a, g) == g.IsRoundFinished

ActionConfirmRoundFinished_Run(a, g) ==
    [g EXCEPT !.RoundFinishedConfirmedPlayerIDs = @ \cup {a.PlayerID}]

IsPossible(a, g) ==
    CASE a.Name = DRAW_FROM_DRAW_PILE -> ActionDrawFromDrawPile_IsPossible(a, g)
      [] a.Name = DRAW_FROM_DISCARD_PILE -> ActionDrawFromDiscardPile_IsPossible(a, g)
      [] a.Name = DISCARD_CARD -> ActionDiscardCard_IsPossible(a, g)
      [] a.Name = MELD_CARDS -> ActionMeldCards_IsPossible(a, g)
      [] a.Name = KNOCK -> ActionKnock_IsPossible(a, g)
      [] a.Name = CONFIRM_ROUND_FINISHED -> ActionConfirmRoundFinished_IsPossible(a, g)

\* Every Run starts by checking IsPossible again; RunAction and the direct
\* calls below only call it where IsPossible holds.
Run(a, g) ==
    CASE a.Name = DRAW_FROM_DRAW_PILE -> ActionDrawFromDrawPile_Run(a, g)
      [] a.Name = DRAW_FROM_DISCARD_PILE -> ActionDrawFromDiscardPile_Run(a, g)
      [] a.Name = DISCARD_CARD -> ActionDiscardCard_Run(a, g)
      [] a.Name = MELD_CARDS -> ActionMeldCards_Run(a, g)
      [] a.Name = KNOCK -> ActionKnock_Run(a, g)
      [] a.Name = CONFIRM_ROUND_FINISHED -> ActionConfirmRoundFinished_Run(a, g)

\* Only the two draw actions override act.YieldsTurn (true) with false;
\* discard and knock override it with true, meld does not override it.
YieldsTurn(a, g) ==
    a.Name \notin {DRAW_FROM_DRAW_PILE, DRAW_FROM_DISCARD_PILE}


----------------------------------------------------------------------------
(* The engine *)

\* GameState.OpponentOf for the ids 0 and 1
OpponentOf(g, playerID) == CHOOSE id \in DOMAIN g.Players : id # playerID

\* the key orders of one call of the generator
CanonicalOrder == [ranks |-> Numbers, suits |-> Suits]

Reverse(s) == [i \in 1..Len(s) |-> s[Len(s) + 1 - i]]

MapOrders == {CanonicalOrder, [ranks |-> Reverse(Numbers), suits |-> Reverse(Suits)]}

CalculatePossibleActions(g, ord) ==
    LET allActions ==
            IF g.IsRoundFinished
            THEN <<NewActionConfirmRoundFinished(g.TurnPlayerID),
                   NewActionConfirmRoundFinished(g.TurnOpponentPlayerID)>>
            ELSE IF ~g.HasDrawnThisTurn
            THEN <<NewActionDrawFromDrawPile(g.TurnPlayerID),
                   NewActionDrawFromDiscardPile(g.TurnPlayerID)>>
            ELSE IF ~g.HasDiscardedThisTurn
            THEN LET hand == g.Players[g.TurnPlayerID].Hand.Revealed
                 IN [i \in 1..Len(hand) |-> NewActionDiscardCard(hand[i], g.TurnPlayerID)]
            ELSE <<NewActionKnock(g.TurnPlayerID)>>
                     \o generatePossibleMeldActions(g, g.TurnPlayerID, ord)
    IN SelectSeq(allActions, LAMBDA action : IsPossible(action, g))

countActionsOfTurnPlayer(g) ==
    LET as == CalculatePossibleActions(g, CanonicalOrder)
    IN Cardinality({i \in 1..Len(as) : as[i].PlayerID = g.TurnPlayerID})

changeTurn(g) ==
    [g EXCEPT !.TurnPlayerID = g.TurnOpponentPlayerID,
              !.TurnOpponentPlayerID = g.TurnPlayerID]

\* deck.shuffle: the deck holds the 40 cards again, in the order `shuffled`
shuffle(d, shuffled) == [cards |-> shuffled]

\* startNewRound; `shuffled` is the outcome of the shuffle, `ord` the key
\* order of the generator call
\* a reset that keeps the knocker of the round before
resetRoundState_KeepsKnocker(g) ==
    [g EXCEPT !.HasDrawnThisTurn = FALSE,
              !.HasDiscardedThisTurn = FALSE,
              !.IsRoundFinished = FALSE,
              !.RoundFinishedConfirmedPlayerIDs = {}]

\* startNewRound, the reset of the round state
resetRoundState(g) ==
    [g EXCEPT !.KnockedPlayerID = -1,
              !.HasDrawnThisTurn = FALSE,
              !.HasDiscardedThisTurn = FALSE,
              !.IsRoundFinished = FALSE,
              !.RoundFinishedConfirmedPlayerIDs = {}]

startNewRound(g, shuffled, ord) ==
    LET d == shuffle(g.deck, shuffled)
        turn == OpponentOf(g, g.TurnPlayerID)
        player0Hand == [Revealed |-> [i \in 1..7 |-> d.cards[2 * i - 1]]]
        player1Hand == [Revealed |-> [i \in 1..7 |-> d.cards[2 * i]]]
        rest == SubSeq(d.cards, 15, Len(d.cards))
        dealt ==
            [g EXCEPT
                 !.deck = [cards |-> rest],
                 !.RoundNumber = @ + 1,
                 !.TurnPlayerID = turn,
                 !.TurnOpponentPlayerID = OpponentOf(g, turn),
                 !.Players = [p \in PlayerIDs |->
                                 [Hand |-> IF p = 0 THEN player0Hand ELSE player1Hand,
                                  Melds |-> <<>>,
                                  Score |-> g.Players[p].Score]],
                 !.DrawPile = IF rest = <<>> THEN [Cards |-> <<>>]
                              ELSE DrawCard([Cards |-> rest]).pile,
                 !.DiscardPile = IF rest = <<>> THEN [Cards |-> <<>>]
                                 ELSE [Cards |-> <<DrawCard([Cards |-> rest]).card>>]]
        roundLog ==
            [HandsDealt |-> [p \in PlayerIDs |->
                                IF p = 0 THEN player0Hand ELSE player1Hand],
             MeldsDealt |-> [p \in PlayerIDs |-> <<>>],
             KnockedPlayerID |-> -1,
             WinnerPlayerID |-> -1,
             LoserPlayerID |-> -1,
             WinnerDeadwoodPoints |-> 0,
             LoserDeadwoodPoints |-> 0,
             PointsAwarded |-> 0,
             ActionsLog |-> <<>>]
    IN Then(resetRoundState(dealt), LAMBDA g1 :
       Then([g1 EXCEPT !.RoundsLog = Append(@, roundLog)], LAMBDA g2 :
           [g2 EXCEPT !.PossibleActions =
                          _serializeActions(CalculatePossibleActions(g2, ord))]))

\* the zero RoundLog that makes the rounds log 1-indexed
EmptyRoundLog ==
    [HandsDealt |-> <<>>, MeldsDealt |-> <<>>, KnockedPlayerID |-> 0,
     WinnerPlayerID |-> 0, LoserPlayerID |-> 0, WinnerDeadwoodPoints |-> 0,
     LoserDeadwoodPoints |-> 0, PointsAwarded |-> 0, ActionsLog |-> <<>>]

\* New(WithMaxPoints(maxPoints)); New() is New(WithMaxPoints(DefaultMaxPoints))
New(maxPoints, shuffled, ord) ==
    startNewRound(
        [RoundNumber |-> 0,
         TurnPlayerID |-> 0,
         TurnOpponentPlayerID |-> 1,
         Players |-> [p \in PlayerIDs |->
                         [Hand |-> [Revealed |-> <<>>], Melds |-> <<>>, Score |-> 0]],
         PossibleActions |-> <<>>,
         DrawPile |-> [Cards |-> <<>>],
         DiscardPile |-> [Cards |-> <<>>],
         HasDrawnThisTurn |-> FALSE,
         HasDiscardedThisTurn |-> FALSE,
         KnockedPlayerID |-> -1,
         IsRoundFinished |-> FALSE,
         IsGameEnded |-> FALSE,
         WinnerPlayerID |-> -1,
         RoundsLog |-> <<EmptyRoundLog>>,
         RoundFinishedConfirmedPlayerIDs |-> {},
         RuleMaxPoints |-> maxPoints,
         deck |-> [cards |-> newDeck]],
        shuffled, ord)

\* an end of game that takes the score of the winner away
handleEndOfGame_ResetsScore(g, order) ==
    LET over == {playerID \in Range(order) :
                     g.Players[playerID].Score >= g.RuleMaxPoints}
    IN IF over = {} THEN g
       ELSE LET playerID == CHOOSE id \in over : TRUE
            IN [g EXCEPT !.Players[playerID].Score = 0,
                         !.IsGameEnded = TRUE,
                         !.WinnerPlayerID = playerID]

\* an end of game that leaves the score of the winner above the threshold
handleEndOfGame_NoClamp(g, order) ==
    LET over == {playerID \in Range(order) :
                     g.Players[playerID].Score >= g.RuleMaxPoints}
    IN IF over = {} THEN g
       ELSE [g EXCEPT !.IsGameEnded = TRUE,
                      !.WinnerPlayerID = CHOOSE id \in over : TRUE]

\* the loop of RunAction that ends the game, visiting the players in `order`
RECURSIVE handleEndOfGame(_, _)
handleEndOfGame(g, order) ==
    IF order = <<>> THEN g
    ELSE LET playerID == Head(order)
             g1 == IF g.Players[playerID].Score >= g.RuleMaxPoints
                   THEN [g EXCEPT !.Players[playerID].Score = g.RuleMaxPoints,
                                  !.IsGameEnded = TRUE,
                                  !.WinnerPlayerID = playerID]
                   ELSE g
         IN handleEndOfGame(g1, Tail(order))

\* the entry filed under the other player's id
logAction_UnderOpponent(g, action) ==
    IF action.Name # CONFIRM_ROUND_FINISHED
    THEN [g EXCEPT !.RoundsLog[CurrentRound(g)].ActionsLog =
                       Append(@, [PlayerID |-> g.TurnOpponentPlayerID,
                                  Action |-> SerializeAction(action)])]
    ELSE g

\* RunAction, the append to the live round's action log
logAction(g, action) ==
    IF action.Name # CONFIRM_ROUND_FINISHED
    THEN [g EXCEPT !.RoundsLog[CurrentRound(g)].ActionsLog =
                       Append(@, [PlayerID |-> g.TurnPlayerID,
                                  Action |-> SerializeAction(action)])]
    ELSE g

\* RunAction, the switch of the turn within the round
switchTurn(g, action) ==
    IF ~g.IsGameEnded /\ ~g.IsRoundFinished /\ YieldsTurn(action, g)
    THEN [g EXCEPT !.TurnPlayerID = g.TurnOpponentPlayerID,
                   !.TurnOpponentPlayerID = g.TurnPlayerID,
                   !.HasDrawnThisTurn = FALSE,
                   !.HasDiscardedThisTurn = FALSE]
    ELSE g

\* a RunAction that leaves the turn with the player who confirmed
turnToUnconfirmed_Stays(g) == g

\* RunAction, the turn moved off the one player who confirmed
turnToUnconfirmed(g) ==
    IF /\ ~g.IsGameEnded
       /\ g.IsRoundFinished
       /\ Cardinality(g.RoundFinishedConfirmedPlayerIDs) = 1
       /\ g.TurnPlayerID \in g.RoundFinishedConfirmedPlayerIDs
    THEN changeTurn(g)
    ELSE g

----------------------------------------------------------------------------
(* The shuffles explored: the deck order that deals hand0 to player 0 and  *)
(* hand1 to player 1 (the deal alternates), leaves `top` as the last cards *)
(* of the deck (its last card opens the discard pile, the one before is    *)
(* the top of the draw pile) and keeps the other cards in deck order.      *)

MkShuffle(hand0, hand1, top) ==
    LET used == Range(hand0) \cup Range(hand1) \cup Range(top)
    IN [i \in 1..14 |-> IF i % 2 = 1 THEN hand0[(i + 1) \div 2] ELSE hand1[i \div 2]]
           \o SelectSeq(newDeck, LAMBDA c : c \notin used)
           \o top

\* player 1 holds a run of four and 10 points beside it, player 0 a run of
\* three and 10 points beside it
ShuffleRuns ==
    MkShuffle(<<Card(5, "espada"), Card(6, "espada"), Card(7, "espada"), Card(1, "oro"),
                Card(2, "oro"), Card(3, "basto"), Card(4, "oro")>>,
              <<Card(4, "copa"), Card(5, "copa"), Card(6, "copa"), Card(7, "copa"),
                Card(3, "oro"), Card(3, "espada"), Card(4, "basto")>>,
              <<Card(12, "basto"), Card(11, "basto")>>)

\* player 1 holds a run of three and a run of four, player 0 no meld
ShuffleGin ==
    MkShuffle(<<Card(10, "espada"), Card(11, "basto"), Card(12, "espada"), Card(10, "basto"),
                Card(7, "espada"), Card(7, "basto"), Card(6, "espada")>>,
              <<Card(1, "oro"), Card(2, "oro"), Card(3, "oro"), Card(4, "copa"),
                Card(5, "copa"), Card(6, "copa"), Card(7, "copa")>>,
              <<Card(12, "basto"), Card(11, "oro")>>)

\* player 1 holds the seven lowest cards, 10 points with nothing melded,
\* player 0 no meld
ShuffleLow ==
    MkShuffle(<<Card(10, "espada"), Card(11, "basto"), Card(12, "espada"), Card(10, "basto"),
                Card(7, "espada"), Card(7, "basto"), Card(5, "espada")>>,
              <<Card(1, "oro"), Card(1, "copa"), Card(1, "espada"), Card(1, "basto"),
                Card(2, "oro"), Card(2, "copa"), Card(2, "espada")>>,
              <<Card(12, "basto"), Card(11, "oro")>>)

\* the shuffles of a round started by RunAction
Shuffles == {ShuffleRuns, ShuffleGin}

\* the games explored: the option given to New and the first shuffle
Games ==
    {[maxPoints |-> SmallMaxPoints, shuffled |-> ShuffleRuns],
     [maxPoints |-> DefaultMaxPoints, shuffled |-> ShuffleGin]}

\* the orders in which range visits the two keys of g.Players
PlayerOrders == {<<0, 1>>, <<1, 0>>}

\* a RunAction that leaves the stored possible actions as they were
refreshPossibleActions_KeepsStored(g, ord) == g

\* RunAction, the recomputation of the possible actions
refreshPossibleActions(g, ord) ==
    Then(IF countActionsOfTurnPlayer(g) = 0 THEN changeTurn(g) ELSE g,
         LAMBDA g1 :
             [g1 EXCEPT !.PossibleActions =
                            _serializeActions(CalculatePossibleActions(g1, ord))])

\* RunAction once the action has passed the three checks: the outcomes it
\* can have, each the state it leaves and the error it returns.  A call
\* leaves open the shuffle of a new round (Shuffles), the order in which
\* range visits g.Players (PlayerOrders) and the key order of the generator
\* (MapOrders).
runAccepted(g, action) ==
    Then(Run(action, g), LAMBDA g1 :
    Then(logAction(g1, action), LAMBDA g2 :
        IF /\ ~g2.IsGameEnded
           /\ g2.IsRoundFinished
           /\ Cardinality(g2.RoundFinishedConfirmedPlayerIDs) = 2
        THEN {[g |-> startNewRound(g2, shuffled, ord), err |-> ""] :
                  shuffled \in Shuffles, ord \in MapOrders}
        ELSE
        Then(switchTurn(g2, action), LAMBDA g3 :
        Then(turnToUnconfirmed(g3), LAMBDA g4 :
            {[g |-> refreshPossibleActions(g5, ord), err |-> ""] :
                 g5 \in {handleEndOfGame(g4, order) : order \in PlayerOrders},
                 ord \in MapOrders}))))

\* a rejection that clears the stored possible actions
RunAction_RejectClears(g, action) ==
    IF g.IsGameEnded
    THEN {[g |-> g, err |-> errGameIsEnded]}
    ELSE IF ~g.IsRoundFinished /\ action.PlayerID # g.TurnPlayerID
    THEN {[g |-> g, err |-> errNotYourTurn]}
    ELSE IF ~IsPossible(action, g)
    THEN {[g |-> [g EXCEPT !.PossibleActions = <<>>], err |-> errActionNotPossible]}
    ELSE runAccepted(g, action)

\* no check of whose turn it is
RunAction_NoTurnCheck(g, action) ==
    IF g.IsGameEnded
    THEN {[g |-> g, err |-> errGameIsEnded]}
    ELSE IF ~IsPossible(action, g)
    THEN {[g |-> g, err |-> errActionNotPossible]}
    ELSE runAccepted(g, action)

\* no check that the game has ended
RunAction_NoEndCheck(g, action) ==
    IF ~g.IsRoundFinished /\ action.PlayerID # g.TurnPlayerID
    THEN {[g |-> g, err |-> errNotYourTurn]}
    ELSE IF ~IsPossible(action, g)
    THEN {[g |-> g, err |-> errActionNotPossible]}
    ELSE runAccepted(g, action)

\* GameState.RunAction on a non-nil action
RunAction(g, action) ==
    IF g.IsGameEnded
    THEN {[g |-> g, err |-> errGameIsEnded]}
    ELSE IF ~g.IsRoundFinished /\ action.PlayerID # g.TurnPlayerID
    THEN {[g |-> g, err |-> errNotYourTurn]}
    ELSE IF ~IsPossible(action, g)
    THEN {[g |-> g, err |-> errActionNotPossible]}
    ELSE runAccepted(g, action)

----------------------------------------------------------------------------
(* The inputs submitted to the engine in a state *)

Hand(p) == state.Players[p].Hand.Revealed

\* the card drawn last, the oldest card of the hand, and a card that is in
\* no hand (the top of the draw pile)
DiscardInputs(p) ==
    (IF Hand(p) = <<>> THEN {} ELSE {Hand(p)[Len(Hand(p))], Hand(p)[1]})
        \cup {TopCard(state.DrawPile)}

\* the groups of cards of the hand that share a rank, taken whole
FullRankGroups(p) ==
    {c \in {SelectSeq(Hand(p), LAMBDA x : x.Number = Numbers[i]) : i \in 1..Len(Numbers)} :
        Len(c) >= 4}

\* every candidate of the generator, every whole group of four of a rank,
\* and a meld of the first two cards (or fewer)
MeldInputs(p) ==
    Range(generatePossibleMeldActions(state, p, CanonicalOrder))
        \cup {NewActionMeldCards(c, MeldTypeSet, p) : c \in FullRankGroups(p)}
        \cup {NewActionMeldCards(SubSeq(Hand(p), 1, IF Len(Hand(p)) < 2 THEN Len(Hand(p)) ELSE 2),
                                 MeldTypeSet, p)}

----------------------------------------------------------------------------
(* The state machine *)

Init ==
    /\ \E game \in Games, ord \in MapOrders :
           state = New(game.maxPoints, game.shuffled, ord)
    /\ lastAction = NoAction
    /\ lastErr = ""
    /\ lastCall = "New"
    /\ steps = 0
    /\ result = NoResult

\* state.RunAction(action), as _runAction and chinchonBotRunAction call it
Submit(action) ==
    \E r \in RunAction(state, action) :
           /\ r.err = "" => steps < MaxSteps
           /\ state' = r.g
           /\ lastAction' = IF r.err = "" THEN action ELSE lastAction
           /\ lastErr' = r.err
           /\ lastCall' = "RunAction"
           /\ steps' = IF r.err = "" THEN steps + 1 ELSE steps
           /\ result' = result

DrawFromDrawPile ==
    /\ steps <= MaxSteps
    /\ \E p \in PlayerIDs : Submit(NewActionDrawFromDrawPile(p))

DrawFromDiscardPile ==
    /\ steps <= MaxSteps
    /\ \E p \in PlayerIDs : Submit(NewActionDrawFromDiscardPile(p))

DiscardCard ==
    /\ steps <= MaxSteps
    /\ \E p \in PlayerIDs : \E card \in DiscardInputs(p) :
           Submit(NewActionDiscardCard(card, p))

MeldCards ==
    /\ steps <= MaxSteps
    /\ \E p \in PlayerIDs : \E a \in MeldInputs(p) : Submit(a)

Knock ==
    /\ steps <= MaxSteps
    /\ \E p \in PlayerIDs : Submit(NewActionKnock(p))

ConfirmRoundFinished ==
    /\ steps <= MaxSteps
    /\ \E p \in PlayerIDs : Submit(NewActionConfirmRoundFinished(p))

Next ==
    \/ DrawFromDrawPile
    \/ DrawFromDiscardPile
    \/ DiscardCard
    \/ MeldCards
    \/ Knock
    \/ ConfirmRoundFinished

Spec == Init /\ [][Next]_vars


----------------------------------------------------------------------------
(* The engine driven as above, and the exported Run of the discard and     *)
(* meld actions called on the state directly.  Run applies the effect of   *)
(* the action only: the turn is not switched and the per-turn flags are    *)
(* not reset, which is how a position with both flags set comes about.     *)

\* action.Run(state)
Apply(action) ==
    /\ state' = IF IsPossible(action, state) THEN Run(action, state) ELSE state
    /\ lastErr' = IF IsPossible(action, state) THEN "" ELSE errActionNotPossible
    /\ IsPossible(action, state) => steps < MaxSteps
    /\ lastAction' = IF IsPossible(action, state) THEN action ELSE lastAction
    /\ lastCall' = "Run"
    /\ steps' = IF IsPossible(action, state) THEN steps + 1 ELSE steps
    /\ result' = result

RunDiscardCard ==
    /\ steps <= MaxSteps
    /\ \E p \in PlayerIDs : \E card \in DiscardInputs(p) :
           Apply(NewActionDiscardCard(card, p))

RunMeldCards ==
    /\ steps <= MaxSteps
    /\ \E p \in PlayerIDs : \E a \in MeldInputs(p) : Apply(a)

NextDirect ==
    \/ Next
    \/ RunDiscardCard
    \/ RunMeldCards

SpecDirect == Init /\ [][NextDirect]_vars


----------------------------------------------------------------------------
(* The engine behind RunAction for every threshold WithMaxPoints accepts:  *)
(* New(WithMaxPoints(maxPoints)) takes any int, 0 among them; chinchonNew  *)
(* passes the positive ones only.                                          *)

GamesAnyMaxPoints ==
    Games \cup {[maxPoints |-> 0, shuffled |-> ShuffleRuns]}

InitAnyMaxPoints ==
    /\ \E game \in GamesAnyMaxPoints, ord \in MapOrders :
           state = New(game.maxPoints, game.shuffled, ord)
    /\ lastAction = NoAction
    /\ lastErr = ""
    /\ lastCall = "New"
    /\ steps = 0
    /\ result = NoResult

SpecAnyMaxPoints == InitAnyMaxPoints /\ [][Next]_vars

----------------------------------------------------------------------------
(* The game whose first shuffle deals player 1 the seven lowest cards: the *)
(* knock needs no meld, so the second round starts after five calls and    *)
(* actions of the second round are within the bound.                       *)

GamesLowHand == {[maxPoints |-> DefaultMaxPoints, shuffled |-> ShuffleLow]}

InitLowHand ==
    /\ \E game \in GamesLowHand, ord \in MapOrders :
           state = New(game.maxPoints, game.shuffled, ord)
    /\ lastAction = NoAction
    /\ lastErr = ""
    /\ lastCall = "New"
    /\ steps = 0
    /\ result = NoResult

SpecLowHand == InitLowHand /\ [][NextDirect]_vars


----------------------------------------------------------------------------
(* Queries: the functions of the engine that compute a value and change    *)
(* nothing, called on arguments of their own.  `result` keeps the value    *)
(* with the arguments it was computed from.  A query depends on its        *)
(* arguments alone, so each behaviour makes one query, in the state New    *)
(* returned.                                                               *)

\* the cards the hands of the queries are made of: four 5s, copa 4 to 7 and
\* 10 (7 and 10 are neighbours in the deck, not consecutive numbers), oro
\* 5 to 7
QueryCards ==
    <<Card(5, "oro"), Card(7, "copa"), Card(5, "copa"), Card(4, "copa"),
      Card(6, "copa"), Card(5, "espada"), Card(10, "copa"), Card(5, "basto"),
      Card(7, "oro"), Card(6, "oro")>>

\* the hands of distinct cards of at most MaxHandLen of these cards, in the
\* order above and in the opposite order
HandInputs ==
    LET hands == {SelectSeq(QueryCards, LAMBDA c : c \in S) :
                      S \in {T \in SUBSET Range(QueryCards) : Cardinality(T) <= MaxHandLen}}
    IN hands \cup {Reverse(h) : h \in hands}

\* g with the hand of playerID replaced: the generator reads nothing of g
\* but g.Players[playerID].Hand.Revealed
WithHand(g, playerID, hand) ==
    [g EXCEPT !.Players[playerID].Hand.Revealed = hand]

\* g.generatePossibleMeldActions(playerID)
GeneratePossibleMeldActions ==
    /\ lastCall = "New"
    /\ \E hand \in HandInputs, playerID \in PlayerIDs, ord \in MapOrders :
           result' = [hand |-> hand,
                      playerID |-> playerID,
                      actions |-> generatePossibleMeldActions(
                                      WithHand(state, playerID, hand), playerID, ord)]
    /\ lastCall' = "generatePossibleMeldActions"
    /\ UNCHANGED <<state, lastAction, lastErr, steps>>

\* the cards of the hands whose deadwood is asked: one of each rank
DeadwoodCards == [i \in 1..Len(Numbers) |-> Card(Numbers[i], Suits[((i - 1) % 4) + 1])]

DeadwoodHandInputs ==
    {SelectSeq(DeadwoodCards, LAMBDA c : c \in S) :
         S \in {T \in SUBSET Range(DeadwoodCards) : Cardinality(T) <= MaxHandLen}}

\* the meld lists given with them: none, one or two of three melds that
\* cover low cards, high cards and cards that are in no hand
DeadwoodMeldInputs ==
    LET ms == {[Type |-> MeldTypeSet,
                Cards |-> <<DeadwoodCards[1], DeadwoodCards[2], DeadwoodCards[7]>>],
               [Type |-> MeldTypeRun,
                Cards |-> <<DeadwoodCards[8], DeadwoodCards[9], DeadwoodCards[10]>>],
               [Type |-> MeldTypeSet,
                Cards |-> <<DeadwoodCards[5], Card(12, "basto"), Card(1, "basto")>>]}
    IN {<<>>} \cup {<<m>> : m \in ms}
           \cup {<<pair[1], pair[2]>> : pair \in {q \in ms \X ms : q[1] # q[2]}}

\* calculateDeadwoodPoints(hand, melds)
CalculateDeadwoodPoints ==
    /\ lastCall = "New"
    /\ \E hand \in DeadwoodHandInputs, melds \in DeadwoodMeldInputs :
           result' = [hand |-> hand, melds |-> melds,
                      points |-> calculateDeadwoodPoints(hand, melds)]
    /\ lastCall' = "calculateDeadwoodPoints"
    /\ UNCHANGED <<state, lastAction, lastErr, steps>>

NextQueries ==
    \/ GeneratePossibleMeldActions
    \/ CalculateDeadwoodPoints

SpecQueries == Init /\ [][NextQueries]_vars

----------------------------------------------------------------------------
(* The view of one player.  The pointer LastActionLog is the empty sequence *)
(* when nil and the sequence of the one entry it points to otherwise.      *)

\* a view that lists the actions of both players
ToClientGameState_Unfiltered(g, youPlayerID, ord) ==
    LET themPlayerID == OpponentOf(g, youPlayerID)
        filteredPossibleActions ==
            CalculatePossibleActions(g, ord)
        actionsLog == g.RoundsLog[CurrentRound(g)].ActionsLog
    IN [RoundNumber |-> g.RoundNumber,
        TurnPlayerID |-> g.TurnPlayerID,
        YouPlayerID |-> youPlayerID,
        ThemPlayerID |-> themPlayerID,
        YourScore |-> g.Players[youPlayerID].Score,
        TheirScore |-> g.Players[themPlayerID].Score,
        YourHandCards |-> g.Players[youPlayerID].Hand.Revealed,
        TheirHandCards |-> g.Players[themPlayerID].Hand.Revealed,
        YourMelds |-> g.Players[youPlayerID].Melds,
        TheirMelds |-> g.Players[themPlayerID].Melds,
        DiscardPileTopCard |-> TopCard(g.DiscardPile),
        PossibleActions |-> _serializeActions(filteredPossibleActions),
        IsGameEnded |-> g.IsGameEnded,
        IsRoundFinished |-> g.IsRoundFinished,
        WinnerPlayerID |-> g.WinnerPlayerID,
        KnockedPlayerID |-> g.KnockedPlayerID,
        YourDeadwoodPoints |->
            calculateDeadwoodPoints(g.Players[youPlayerID].Hand.Revealed,
                                    g.Players[youPlayerID].Melds),
        TheirDeadwoodPoints |->
            calculateDeadwoodPoints(g.Players[themPlayerID].Hand.Revealed,
                                    g.Players[themPlayerID].Melds),
        RuleMaxPoints |-> g.RuleMaxPoints,
        LastActionLog |-> IF Len(actionsLog) > 0
                          THEN <<actionsLog[Len(actionsLog)]>>
                          ELSE <<>>]

\* GameState.ToClientGameState
ToClientGameState(g, youPlayerID, ord) ==
    LET themPlayerID == OpponentOf(g, youPlayerID)
        filteredPossibleActions ==
            SelectSeq(CalculatePossibleActions(g, ord),
                      LAMBDA a : a.PlayerID = youPlayerID)
        actionsLog == g.RoundsLog[CurrentRound(g)].ActionsLog
    IN [RoundNumber |-> g.RoundNumber,
        TurnPlayerID |-> g.TurnPlayerID,
        YouPlayerID |-> youPlayerID,
        ThemPlayerID |-> themPlayerID,
        YourScore |-> g.Players[youPlayerID].Score,
        TheirScore |-> g.Players[themPlayerID].Score,
        YourHandCards |-> g.Players[youPlayerID].Hand.Revealed,
        TheirHandCards |-> g.Players[themPlayerID].Hand.Revealed,
        YourMelds |-> g.Players[youPlayerID].Melds,
        TheirMelds |-> g.Players[themPlayerID].Melds,
        DiscardPileTopCard |-> TopCard(g.DiscardPile),
        PossibleActions |-> _serializeActions(filteredPossibleActions),
        IsGameEnded |-> g.IsGameEnded,
        IsRoundFinished |-> g.IsRoundFinished,
        WinnerPlayerID |-> g.WinnerPlayerID,
        KnockedPlayerID |-> g.KnockedPlayerID,
        YourDeadwoodPoints |->
            calculateDeadwoodPoints(g.Players[youPlayerID].Hand.Revealed,
                                    g.Players[youPlayerID].Melds),
        TheirDeadwoodPoints |->
            calculateDeadwoodPoints(g.Players[themPlayerID].Hand.Revealed,
                                    g.Players[themPlayerID].Melds),
        RuleMaxPoints |-> g.RuleMaxPoints,
        LastActionLog |-> IF Len(actionsLog) > 0
                          THEN <<actionsLog[Len(actionsLog)]>>
                          ELSE <<>>]

----------------------------------------------------------------------------
(* Properties of the engine *)

RECURSIVE MeldCardsOf(_)
MeldCardsOf(melds) ==
    IF melds = <<>> THEN <<>> ELSE Head(melds).Cards \o MeldCardsOf(Tail(melds))

\* the cards of both piles, both hands and all melds of both players
CardsInPlay(g) ==
    g.DrawPile.Cards \o g.DiscardPile.Cards
        \o g.Players[0].Hand.Revealed \o g.Players[1].Hand.Revealed
        \o MeldCardsOf(g.Players[0].Melds) \o MeldCardsOf(g.Players[1].Melds)

\* the deadwood of a player as calculateRoundScore and hasValidMelds take it
Deadwood(g, p) ==
    calculateDeadwoodPoints(g.Players[p].Hand.Revealed, g.Players[p].Melds)

\* the log of the live round
LiveRoundLog(g) == g.RoundsLog[CurrentRound(g)]

\* the actions submitted for player p in the current state
Inputs(p) ==
    {NewActionDrawFromDrawPile(p), NewActionDrawFromDiscardPile(p),
     NewActionKnock(p), NewActionConfirmRoundFinished(p)}
        \cup {NewActionDiscardCard(card, p) : card \in DiscardInputs(p)}
        \cup MeldInputs(p)

\* this step is a call of RunAction that accepted an action of this name
Accepted(name) ==
    /\ lastCall' = "RunAction"
    /\ lastErr' = ""
    /\ steps' = steps + 1
    /\ lastAction'.Name = name

\* C1: in every reachable state, of every round, the draw pile, the discard
\* pile, both hands and the melds of both players hold 40 cards together
\* and no card twice.
C1_CardConservation ==
    LET cards == CardsInPlay(state)
    IN /\ Len(cards) = 40
       /\ \A i, j \in 1..Len(cards) : i # j => cards[i] # cards[j]

\* a second round has started, after a round in which player 1 melded and
\* cards were drawn and discarded
C1_Witness ==
    /\ state.RoundNumber = 2
    /\ Len(state.RoundsLog[2].MeldsDealt[1]) > 0
    /\ Len(state.DrawPile.Cards) = 25
    /\ Len(CardsInPlay(state)) = 40

\* C2: a call of RunAction that returns an error leaves every field of the
\* GameState equal to its value before the call.
C2_RejectionWithoutMutation ==
    [][(lastCall' = "RunAction" /\ lastErr' # "") => state' = state]_vars

\* RunAction has rejected an action of the turn player as not possible,
\* after the state had changed through accepted actions
C2_Witness ==
    /\ lastCall = "RunAction"
    /\ lastErr = errActionNotPossible
    /\ state.HasDrawnThisTurn
    /\ steps > 1

C4_GameEndIsTerminal ==
    [][state.IsGameEnded =>
          /\ \A p \in PlayerIDs : \A a \in Inputs(p) :
                 \A r \in RunAction(state, a) : r.err = errGameIsEnded
          /\ lastCall' = "RunAction" => lastErr' = errGameIsEnded
          /\ state'.IsGameEnded
          /\ state'.WinnerPlayerID = state.WinnerPlayerID
          /\ \A p \in PlayerIDs : state'.Players[p].Score = state.Players[p].Score
          /\ state'.RoundNumber = state.RoundNumber]_vars

\* the game has ended and a later call of RunAction has failed with GameEnded
C4_Witness ==
    /\ state.IsGameEnded
    /\ state.WinnerPlayerID \in PlayerIDs
    /\ lastCall = "RunAction"
    /\ lastErr = errGameIsEnded

\* C5: after the turn player has drawn and then discarded through RunAction
\* in an unfinished round, it is still that player's turn with hasDrawn and
\* hasDiscarded both set, and a Knock of that player with deadwood <= 10 is
\* accepted by RunAction and finishes the round.
C5_MeldOrKnockPhase ==
    [][(Accepted(DISCARD_CARD) /\ state.HasDrawnThisTurn) =>
          LET p == lastAction'.PlayerID
          IN /\ state'.TurnPlayerID = p
             /\ state'.HasDrawnThisTurn
             /\ state'.HasDiscardedThisTurn
             /\ Deadwood(state', p) <= 10 =>
                    \A r \in RunAction(state', NewActionKnock(p)) :
                        r.err = "" /\ r.g.IsRoundFinished]_vars

\* C6: a MeldCards action that RunAction accepts leaves TurnPlayerID,
\* TurnOpponentPlayerID, hasDrawnThisTurn and hasDiscardedThisTurn as they
\* were before the call.
C6_MeldKeepsTurn ==
    [][Accepted(MELD_CARDS) =>
          /\ state'.TurnPlayerID = state.TurnPlayerID
          /\ state'.TurnOpponentPlayerID = state.TurnOpponentPlayerID
          /\ state'.HasDrawnThisTurn = state.HasDrawnThisTurn
          /\ state'.HasDiscardedThisTurn = state.HasDiscardedThisTurn]_vars

\* C7: when Knock is applied and both players have equal deadwood, the
\* winner in the round log is the player who did not knock, whichever
\* player knocked, and the score of the knocker does not change.
C7_TieRule ==
    [][(Accepted(KNOCK) /\ Deadwood(state, 0) = Deadwood(state, 1)) =>
          LET knocker == lastAction'.PlayerID
          IN /\ LiveRoundLog(state').WinnerPlayerID = OpponentOf(state, knocker)
             /\ LiveRoundLog(state').LoserPlayerID = knocker
             /\ state'.Players[knocker].Score = state.Players[knocker].Score]_vars

\* C8: when Knock is applied and the knocker is not the round winner, the
\* points awarded are the deadwood difference, plus 25 if the winner has no
\* deadwood, plus 10.
C8_UndercutBonus ==
    [][(Accepted(KNOCK)
          /\ LiveRoundLog(state').WinnerPlayerID # lastAction'.PlayerID) =>
          LET log == LiveRoundLog(state')
          IN log.PointsAwarded =
                 (log.LoserDeadwoodPoints - log.WinnerDeadwoodPoints)
                     + (IF log.WinnerDeadwoodPoints = 0 THEN 25 ELSE 0)
                     + 10]_vars

\* C9: when Knock is applied with unequal deadwoods, the round log records
\* the player with the lower deadwood as winner and the other as loser,
\* each with their deadwood, and the points awarded are the deadwood
\* difference, plus 25 exactly when the winner has no deadwood, with at
\* most the 10 of the undercut on top.
C9_WinnerAndBasePoints ==
    [][(Accepted(KNOCK) /\ Deadwood(state, 0) # Deadwood(state, 1)) =>
          LET winner == IF Deadwood(state, 1) < Deadwood(state, 0) THEN 1 ELSE 0
              loser == 1 - winner
              log == LiveRoundLog(state')
              base == (Deadwood(state, loser) - Deadwood(state, winner))
                          + (IF Deadwood(state, winner) = 0 THEN 25 ELSE 0)
          IN /\ log.WinnerPlayerID = winner
             /\ log.LoserPlayerID = loser
             /\ log.WinnerDeadwoodPoints = Deadwood(state, winner)
             /\ log.LoserDeadwoodPoints = Deadwood(state, loser)
             /\ log.PointsAwarded >= base
             /\ log.PointsAwarded \in {base, base + 10}]_vars

\* player 1 has knocked with no deadwood left and won the difference and
\* the 25 of the bonus
C9_Witness ==
    /\ state.IsRoundFinished
    /\ lastAction.Name = KNOCK
    /\ LiveRoundLog(state).WinnerPlayerID = 1
    /\ LiveRoundLog(state).WinnerDeadwoodPoints = 0
    /\ LiveRoundLog(state).LoserDeadwoodPoints > 0
    /\ LiveRoundLog(state).PointsAwarded = LiveRoundLog(state).LoserDeadwoodPoints + 25

C11_GameEndCondition ==
    state.IsGameEnded <=>
        \E p \in PlayerIDs : state.Players[p].Score >= state.RuleMaxPoints

C13_DeadwoodBound ==
    [][/\ \A p \in PlayerIDs :
              Deadwood(state, p) > 10 =>
                  \A r \in RunAction(state, NewActionKnock(p)) : r.err # ""
       /\ Accepted(KNOCK) => Deadwood(state, lastAction'.PlayerID) <= 10]_vars

\* a Knock with deadwood of exactly 10 has been accepted
C13_Witness ==
    /\ lastAction.Name = KNOCK
    /\ lastCall = "RunAction"
    /\ lastErr = ""
    /\ state.IsRoundFinished
    /\ Deadwood(state, lastAction.PlayerID) = 10

\* C14: in a new game round 1 is dealt with 7 cards in each hand and
\* player 0 is the turn player; RunAction accepts DrawFromDrawPile of
\* player 0 and leaves hasDrawnThisTurn true and 8 cards in the hand; it
\* then accepts DiscardCard of player 0 for a card of the hand and leaves
\* 7 cards in the hand, the discarded card on top of the discard pile and
\* the turn with player 1.
C14_ScenarioA ==
    lastCall = "New" =>
        /\ state.RoundNumber = 1
        /\ \A p \in PlayerIDs : Len(state.Players[p].Hand.Revealed) = 7
        /\ state.TurnPlayerID = 0
        /\ \A r \in RunAction(state, NewActionDrawFromDrawPile(0)) :
               /\ r.err = ""
               /\ r.g.HasDrawnThisTurn
               /\ Len(r.g.Players[0].Hand.Revealed) = 8
               /\ \A card \in Range(r.g.Players[0].Hand.Revealed) :
                      \A r2 \in RunAction(r.g, NewActionDiscardCard(card, 0)) :
                          /\ r2.err = ""
                          /\ Len(r2.g.Players[0].Hand.Revealed) = 7
                          /\ TopCard(r2.g.DiscardPile) = card
                          /\ r2.g.TurnPlayerID = 1

\* C15: when the round is finished, the game has not ended and one player
\* has confirmed, the call of RunAction that accepts ConfirmRoundFinished
\* of the other player starts a new round: RoundNumber is one more, each
\* hand has 7 cards, both meld lists are empty, the discard pile has 1
\* card and the draw pile 25, hasDrawnThisTurn and hasDiscardedThisTurn are
\* false, KnockedPlayerID is -1, IsRoundFinished is false and the
\* confirmed-set is empty.
C15_RoundTransition ==
    [][(/\ Accepted(CONFIRM_ROUND_FINISHED)
        /\ state.IsRoundFinished
        /\ ~state.IsGameEnded
        /\ state.RoundFinishedConfirmedPlayerIDs \cup {lastAction'.PlayerID}
               = PlayerIDs) =>
          /\ state'.RoundNumber = state.RoundNumber + 1
          /\ \A p \in PlayerIDs :
                 /\ Len(state'.Players[p].Hand.Revealed) = 7
                 /\ state'.Players[p].Melds = <<>>
          /\ Len(state'.DiscardPile.Cards) = 1
          /\ Len(state'.DrawPile.Cards) = 25
          /\ ~state'.HasDrawnThisTurn
          /\ ~state'.HasDiscardedThisTurn
          /\ state'.KnockedPlayerID = -1
          /\ ~state'.IsRoundFinished
          /\ state'.RoundFinishedConfirmedPlayerIDs = {}]_vars

\* the second confirmation of a round that a Knock finished has been
\* accepted and round 2 has started
C15_Witness ==
    /\ lastCall = "RunAction"
    /\ lastErr = ""
    /\ lastAction.Name = CONFIRM_ROUND_FINISHED
    /\ state.RoundNumber = 2
    /\ state.RoundsLog[2].KnockedPlayerID \in PlayerIDs
    /\ state.KnockedPlayerID = -1
    /\ state.RoundFinishedConfirmedPlayerIDs = {}

\* the player of the first entry of the live round's action log: the player
\* who started the round, since the turn only moves in RunAction, after the
\* action has been logged under the turn player
RoundStarter(g) == LiveRoundLog(g).ActionsLog[1].PlayerID

\* C16: the turn player at the start of a round n >= 2 is the opponent of
\* the turn player at the start of round n-1, whoever knocked and in
\* whichever order the players confirmed.
C16_StarterAlternation ==
    [][state'.RoundNumber = state.RoundNumber + 1 =>
          state'.TurnPlayerID = OpponentOf(state, RoundStarter(state))]_vars

\* the stored possible actions whose actor is the turn player
StoredActionsOfTurnPlayer(g) ==
    {i \in 1..Len(g.PossibleActions) :
         g.PossibleActions[i].playerID = g.TurnPlayerID}

\* C17: after New and after every accepted call of RunAction, in a game
\* that has not ended, the stored possible actions hold at least one action
\* of the turn player.
C17_NoDeadEnd ==
    (/\ lastCall \in {"New", "RunAction"}
     /\ lastErr = ""
     /\ ~state.IsGameEnded) =>
        StoredActionsOfTurnPlayer(state) # {}

\* RunAction has accepted a discard, the turn has passed, and the stored
\* possible actions are the draws of the new turn player
C17_Witness ==
    /\ lastCall = "RunAction"
    /\ lastErr = ""
    /\ lastAction.Name = DISCARD_CARD
    /\ state.TurnPlayerID # lastAction.PlayerID
    /\ ~state.IsGameEnded
    /\ Len(state.PossibleActions) = 2
    /\ StoredActionsOfTurnPlayer(state) = {1, 2}

\* the possible actions of the state as CalculatePossibleActions gives them
\* now (the order of the generator does not change the set)
LegalSet(g) == Range(CalculatePossibleActions(g, CanonicalOrder))

\* C18: in a game that has not ended, RunAction rejects with
\* ActionNotPossible every action of the turn player that is not among the
\* possible actions of the state.
C18_LegalSetCompleteness ==
    ~state.IsGameEnded =>
        \A a \in Inputs(state.TurnPlayerID) :
            a \notin LegalSet(state) =>
                \A r \in RunAction(state, a) : r.err = errActionNotPossible

\* the action logs of all the rounds of the game
ActionsLogs(g) == [i \in 1..Len(g.RoundsLog) |-> g.RoundsLog[i].ActionsLog]

\* C19: an accepted action other than ConfirmRoundFinished appends to the
\* live round's action log one entry, the action under the id of the player
\* who acted, and changes no other entry of any round; an accepted
\* ConfirmRoundFinished and a rejected action leave every entry as it was.
C19_ActionLog ==
    [][/\ \A name \in {DRAW_FROM_DRAW_PILE, DRAW_FROM_DISCARD_PILE,
                       DISCARD_CARD, MELD_CARDS, KNOCK} :
              Accepted(name) =>
                  /\ Len(state'.RoundsLog) = Len(state.RoundsLog)
                  /\ CurrentRound(state') = CurrentRound(state)
                  /\ ActionsLogs(state') =
                         [ActionsLogs(state) EXCEPT ![CurrentRound(state)] =
                              Append(@, [PlayerID |-> lastAction'.PlayerID,
                                         Action |-> SerializeAction(lastAction')])]
       /\ Accepted(CONFIRM_ROUND_FINISHED) =>
              \A i \in 1..Len(state.RoundsLog) :
                  ActionsLogs(state')[i] = ActionsLogs(state)[i]
       /\ (lastCall' = "RunAction" /\ lastErr' # "") =>
              ActionsLogs(state') = ActionsLogs(state)]_vars

\* a knock has been accepted and is the last of at least two entries of the
\* round's log, under the knocker's id
C19_Witness ==
    /\ lastCall = "RunAction"
    /\ lastErr = ""
    /\ lastAction.Name = KNOCK
    /\ Len(LiveRoundLog(state).ActionsLog) >= 2
    /\ LiveRoundLog(state).ActionsLog[Len(LiveRoundLog(state).ActionsLog)] =
           [PlayerID |-> lastAction.PlayerID,
            Action |-> SerializeAction(lastAction)]

\* the hands the log of the live round holds as dealt
HandsDealt(g) == LiveRoundLog(g).HandsDealt

\* C20: throughout a round the HandsDealt of the round's log holds, for each
\* player, the 7 cards dealt to that player when the round started: a step
\* into a new round records the hands just dealt, and a step within a round
\* (a draw, a discard, a meld) leaves the record as it was.
C20_DealtHandsSnapshot ==
    [][/\ \A p \in PlayerIDs : Len(HandsDealt(state')[p].Revealed) = 7
       /\ state'.RoundNumber # state.RoundNumber =>
              \A p \in PlayerIDs : HandsDealt(state')[p] = state'.Players[p].Hand
       /\ state'.RoundNumber = state.RoundNumber =>
              HandsDealt(state') = HandsDealt(state)]_vars

\* C21: the rounds log has one entry per round started and the empty entry
\* before them, and no step changes an entry of a round that is over: the
\* entries below the live one of the state the step leaves.
C21_RoundsLogAlignment ==
    /\ [](/\ Len(state.RoundsLog) = state.RoundNumber + 1
          /\ state.RoundsLog[1] = EmptyRoundLog)
    /\ [][\A i \in 1..(CurrentRound(state') - 1) :
              i <= Len(state.RoundsLog) /\ i < CurrentRound(state) =>
                  state'.RoundsLog[i] = state.RoundsLog[i]]_vars

\* an action has been accepted in round 2, and the entry of round 1 holds
\* the knock that ended it
C21_Witness ==
    /\ state.RoundNumber = 2
    /\ lastErr = ""
    /\ lastAction.Name \in {DRAW_FROM_DRAW_PILE, DRAW_FROM_DISCARD_PILE}
    /\ Len(LiveRoundLog(state).ActionsLog) = 1
    /\ state.RoundsLog[2].KnockedPlayerID = 1
    /\ state.RoundsLog[2].ActionsLog # <<>>

\* C22: every candidate the generator gives for a hand of distinct cards is
\* made of cards of the hand; a set candidate has at least 3 cards, all of
\* one rank, no suit twice; a run candidate has at least 3 cards, all of
\* one suit, each one number above the card before it; and the candidate
\* passes IsPossible of MeldCards for the player holding the hand with the
\* turn in an unfinished round.
C22_GeneratorSoundness ==
    lastCall = "generatePossibleMeldActions" =>
        \A i \in 1..Len(result.actions) :
            LET a == result.actions[i]
                cards == a.Cards
                g == [WithHand(state, result.playerID, result.hand)
                          EXCEPT !.TurnPlayerID = result.playerID,
                                 !.IsRoundFinished = FALSE]
            IN /\ a.Name = MELD_CARDS
               /\ a.PlayerID = result.playerID
               /\ Range(cards) \subseteq Range(result.hand)
               /\ Len(cards) >= 3
               /\ a.MeldType \in {MeldTypeSet, MeldTypeRun}
               /\ a.MeldType = MeldTypeSet =>
                      /\ \A j, k \in 1..Len(cards) : cards[j].Number = cards[k].Number
                      /\ \A j, k \in 1..Len(cards) :
                             j # k => cards[j].Suit # cards[k].Suit
               /\ a.MeldType = MeldTypeRun =>
                      /\ \A j, k \in 1..Len(cards) : cards[j].Suit = cards[k].Suit
                      /\ \A j \in 2..Len(cards) :
                             cards[j].Number = cards[j - 1].Number + 1
               /\ ActionMeldCards_IsPossible(a, g)

\* the generator has given set candidates and run candidates, a run of four
\* among them, for a hand of eight cards
C22_Witness ==
    /\ lastCall = "generatePossibleMeldActions"
    /\ Len(result.hand) = 8
    /\ \E i, j \in 1..Len(result.actions) :
           /\ result.actions[i].MeldType = MeldTypeSet
           /\ result.actions[j].MeldType = MeldTypeRun
           /\ Len(result.actions[j].Cards) = 4

\* the groups of cards of a hand, each in the order of the hand
GroupsOf(hand) ==
    {SelectSeq(hand, LAMBDA c : c \in S) : S \in SUBSET Range(hand)}

\* C23: every group of cards of the hand that passes IsPossible of MeldCards
\* as a set or as a run, for the player holding the hand with the turn in an
\* unfinished round, is among the candidates of the generator, whatever the
\* order of its cards.
C23_GeneratorCompleteness ==
    lastCall = "generatePossibleMeldActions" =>
        LET g == [WithHand(state, result.playerID, result.hand)
                      EXCEPT !.TurnPlayerID = result.playerID,
                             !.IsRoundFinished = FALSE]
        IN \A cards \in GroupsOf(result.hand) :
               \A meldType \in {MeldTypeSet, MeldTypeRun} :
                   ActionMeldCards_IsPossible(
                       NewActionMeldCards(cards, meldType, result.playerID), g) =>
                       \E i \in 1..Len(result.actions) :
                           /\ result.actions[i].MeldType = meldType
                           /\ Range(result.actions[i].Cards) = Range(cards)

\* C24: in every reachable state and for each player as the viewer, the
\* possible actions of the view are the actions of that player among the
\* possible actions computed on the state, each once; in an unfinished round
\* the view of the player who does not have the turn lists none; and the
\* view's LastActionLog is nil exactly when the action log of the live round
\* is empty.
C24_PerspectiveFilter ==
    \A viewer \in PlayerIDs : \A ord \in MapOrders :
        LET cgs == ToClientGameState(state, viewer, ord)
            fresh == CalculatePossibleActions(state, ord)
            mine == {i \in 1..Len(fresh) : fresh[i].PlayerID = viewer}
        IN /\ Range(cgs.PossibleActions) = {SerializeAction(fresh[i]) : i \in mine}
           /\ Len(cgs.PossibleActions) = Cardinality(mine)
           /\ \A i \in 1..Len(cgs.PossibleActions) :
                  cgs.PossibleActions[i].playerID = viewer
           /\ (~state.IsRoundFinished /\ viewer # state.TurnPlayerID) =>
                  cgs.PossibleActions = <<>>
           /\ cgs.LastActionLog = <<>> <=> LiveRoundLog(state).ActionsLog = <<>>

\* a finished round in which one player has confirmed: each view lists its
\* own player's confirmation only, and the last action logged is the knock
C24_Witness ==
    /\ state.IsRoundFinished
    /\ ~state.IsGameEnded
    /\ Cardinality(state.RoundFinishedConfirmedPlayerIDs) = 1
    /\ \A viewer \in PlayerIDs :
           LET cgs == ToClientGameState(state, viewer, CanonicalOrder)
           IN /\ Len(cgs.LastActionLog) = 1
              /\ cgs.LastActionLog[1].Action.name = KNOCK
              /\ Len(cgs.PossibleActions) = 1
              /\ cgs.PossibleActions[1] =
                     SerializeAction(NewActionConfirmRoundFinished(viewer))
              /\ Len(CalculatePossibleActions(state, CanonicalOrder)) = 2

----------------------------------------------------------------------------
(* The action codec and the handler of main_wasm.go that decodes an action *)
(* and runs it.  A serialized action is the JSON object as a record; an    *)
(* Action that may be nil is the empty sequence when nil and the sequence  *)
(* of the one action otherwise.  A panic ends the program: the handler     *)
(* does not run again after a call that returned an error.                 *)

errUnknownAction == "unknown action"

\* the member of the JSON object under the key, the zero value of the Go
\* field when the object has no such member
Field(bs, key, zero) == IF key \in DOMAIN bs THEN bs[key] ELSE zero

\* a codec that takes an unknown name for a draw from the draw pile
DeserializeAction_UnknownIsDraw(bs) ==
    LET actionName == Field(bs, "name", "")
        withAct == [Name |-> actionName, PlayerID |-> Field(bs, "playerID", 0)]
    IN IF actionName \in {DRAW_FROM_DRAW_PILE, DRAW_FROM_DISCARD_PILE, KNOCK,
                          CONFIRM_ROUND_FINISHED}
       THEN [action |-> <<withAct>>, err |-> ""]
       ELSE IF actionName = DISCARD_CARD
       THEN [action |-> <<[Name |-> withAct.Name, PlayerID |-> withAct.PlayerID,
                           Card |-> Field(bs, "card", Card(0, ""))]>>,
             err |-> ""]
       ELSE IF actionName = MELD_CARDS
       THEN [action |-> <<[Name |-> withAct.Name, PlayerID |-> withAct.PlayerID,
                           Cards |-> Field(bs, "cards", <<>>),
                           MeldType |-> Field(bs, "meldType", "")]>>,
             err |-> ""]
       ELSE [action |-> <<[Name |-> DRAW_FROM_DRAW_PILE, PlayerID |-> withAct.PlayerID]>>,
             err |-> ""]

\* DeserializeAction: the name decoded first, then the whole object into the
\* struct of that name; nil and an error for any other name
DeserializeAction(bs) ==
    LET actionName == Field(bs, "name", "")
        withAct == [Name |-> actionName, PlayerID |-> Field(bs, "playerID", 0)]
    IN IF actionName \in {DRAW_FROM_DRAW_PILE, DRAW_FROM_DISCARD_PILE, KNOCK,
                          CONFIRM_ROUND_FINISHED}
       THEN [action |-> <<withAct>>, err |-> ""]
       ELSE IF actionName = DISCARD_CARD
       THEN [action |-> <<[Name |-> withAct.Name, PlayerID |-> withAct.PlayerID,
                           Card |-> Field(bs, "card", Card(0, ""))]>>,
             err |-> ""]
       ELSE IF actionName = MELD_CARDS
       THEN [action |-> <<[Name |-> withAct.Name, PlayerID |-> withAct.PlayerID,
                           Cards |-> Field(bs, "cards", <<>>),
                           MeldType |-> Field(bs, "meldType", "")]>>,
             err |-> ""]
       ELSE [action |-> <<>>, err |-> errUnknownAction]

\* objects whose name is none of the six: another word, a known name in
\* capitals, the empty name and no name at all
UnknownInputs ==
    {[name |-> n, playerID |-> p] : n \in {"fold", "KNOCK", ""}, p \in PlayerIDs}
        \cup {[playerID |-> p] : p \in PlayerIDs}
        \cup {[name |-> "fold", playerID |-> p, card |-> TopCard(state.DiscardPile)] :
                  p \in PlayerIDs}

\* the bytes given to the handler: the serialized actions of both players
\* and the objects of unknown name
SerializedInputs ==
    {SerializeAction(a) : a \in Inputs(0) \cup Inputs(1)} \cup UnknownInputs

\* _runAction(bs)
_runAction ==
    /\ lastErr = ""
    /\ \E bs \in SerializedInputs :
           LET d == DeserializeAction(bs)
           IN /\ result' = [bs |-> bs, action |-> d.action, err |-> d.err]
              /\ IF d.err # ""
                 THEN /\ lastCall' = "DeserializeAction"
                      /\ lastErr' = d.err
                      /\ UNCHANGED <<state, lastAction, steps>>
                 ELSE \E r \in RunAction(state, d.action[1]) :
                          /\ r.err = "" => steps < MaxSteps
                          /\ state' = r.g
                          /\ lastAction' = IF r.err = "" THEN d.action[1] ELSE lastAction
                          /\ lastErr' = r.err
                          /\ lastCall' = "RunAction"
                          /\ steps' = IF r.err = "" THEN steps + 1 ELSE steps

NextWasm ==
    \/ _runAction

SpecWasm == Init /\ [][NextWasm]_vars

ActionNames ==
    {DRAW_FROM_DRAW_PILE, DRAW_FROM_DISCARD_PILE, DISCARD_CARD, MELD_CARDS,
     KNOCK, CONFIRM_ROUND_FINISHED}

\* C25: when the handler is given a serialized action whose name is none of
\* the six, DeserializeAction returns no action and the unknown-action
\* error, RunAction is not called and the GameState is as it was.
C25_UnknownActionTag ==
    [][Field(result'.bs, "name", "") \notin ActionNames =>
           /\ result'.action = <<>>
           /\ result'.err = errUnknownAction
           /\ lastErr' = errUnknownAction
           /\ lastCall' = "DeserializeAction"
           /\ state' = state
           /\ lastAction' = lastAction
           /\ steps' = steps]_vars

\* an object named "fold" has been refused after two accepted actions
C25_Witness ==
    /\ steps = 2
    /\ lastCall = "DeserializeAction"
    /\ lastErr = errUnknownAction
    /\ Field(result.bs, "name", "") = "fold"
    /\ result.action = <<>>
    /\ Len(LiveRoundLog(state).ActionsLog) = 2

\* the point value of a card left unmelded
CardPoints(card) ==
    IF card.Number \in 1..7 THEN card.Number
    ELSE IF card.Number \in 10..12 THEN 10
    ELSE -1

RECURSIVE SumOfPoints(_)
SumOfPoints(cards) ==
    IF cards = {} THEN 0
    ELSE LET c == CHOOSE x \in cards : TRUE
         IN CardPoints(c) + SumOfPoints(cards \ {c})

\* C26: the deadwood of a hand with a list of melds is the sum of the point
\* values of the cards of the hand that are in none of the melds, a card of
\* rank 1 to 7 counting its rank and a card of rank 10 to 12 counting 10.
C26_DeadwoodValue ==
    lastCall = "calculateDeadwoodPoints" =>
        LET covered(card) ==
                \E i \in 1..Len(result.melds) :
                    \E j \in 1..Len(result.melds[i].Cards) :
                        result.melds[i].Cards[j] = card
            unmelded == {card \in Range(result.hand) : ~covered(card)}
        IN result.points = SumOfPoints(unmelded)

\* a hand of eight cards with low and high cards, one of them in the first
\* of the two melds given, and 18 points of deadwood
C26_Witness ==
    /\ lastCall = "calculateDeadwoodPoints"
    /\ Len(result.hand) = 8
    /\ Len(result.melds) = 2
    /\ \E i, j, k \in 1..Len(result.hand) :
           /\ result.hand[i].Number >= 10
           /\ result.hand[j].Number <= 7
           /\ result.hand[k] \in Range(result.melds[1].Cards)
    /\ result.points = 18

\* C27: after New and after every accepted RunAction, the one that starts a
\* new round included, the possible actions stored on the state are the ones
\* CalculatePossibleActions gives on that state.
C27_FreshLegalSet ==
    (lastCall \in {"New", "RunAction"} /\ lastErr = "") =>
        /\ \E ord \in MapOrders :
               state.PossibleActions =
                   _serializeActions(CalculatePossibleActions(state, ord))
        /\ Range(state.PossibleActions) = {SerializeAction(a) : a \in LegalSet(state)}

\* the second confirmation has started round 2, and the two draws of the
\* player who starts it are stored
C27_Witness ==
    /\ lastCall = "RunAction"
    /\ lastErr = ""
    /\ lastAction.Name = CONFIRM_ROUND_FINISHED
    /\ state.RoundNumber = 2
    /\ state.PossibleActions =
           <<SerializeAction(NewActionDrawFromDrawPile(state.TurnPlayerID)),
             SerializeAction(NewActionDrawFromDiscardPile(state.TurnPlayerID))>>

\* the frame of a draw by player p: the pile not drawn from aside, nothing
\* of the opponent's hand, the melds, the scores, the turn and the flags of
\* the round and of the game changes
DrawFrame(p) ==
    /\ state'.Players[OpponentOf(state, p)].Hand = state.Players[OpponentOf(state, p)].Hand
    /\ \A q \in PlayerIDs :
           /\ state'.Players[q].Melds = state.Players[q].Melds
           /\ state'.Players[q].Score = state.Players[q].Score
    /\ state'.TurnPlayerID = state.TurnPlayerID
    /\ state'.IsRoundFinished = state.IsRoundFinished
    /\ state'.IsGameEnded = state.IsGameEnded

\* the top card of the pile `from` has moved to the end of the hand of p
DrawMoves(p, from, fromAfter) ==
    /\ from.Cards # <<>>
    /\ fromAfter.Cards = SubSeq(from.Cards, 1, Len(from.Cards) - 1)
    /\ state'.Players[p].Hand.Revealed =
           Append(state.Players[p].Hand.Revealed, from.Cards[Len(from.Cards)])
    /\ state'.HasDrawnThisTurn

AcceptedDraw == Accepted(DRAW_FROM_DRAW_PILE) \/ Accepted(DRAW_FROM_DISCARD_PILE)

\* this step is an accepted discard, through RunAction or through Run
AcceptedDiscard ==
    /\ lastErr' = ""
    /\ steps' = steps + 1
    /\ lastAction'.Name = DISCARD_CARD

\* C29: between two accepted draws of one player the turn passes to the
\* opponent, and a discard is accepted only from the player who has drawn
\* earlier in the same turn and has not discarded since.  Step by step: a
\* draw is accepted only from the turn player who has not drawn, and sets
\* HasDrawnThisTurn; only a draw sets it; it is cleared, and so is
\* HasDiscardedThisTurn, only by a step that moves the turn; the turn moves
\* with HasDrawnThisTurn left set only in a finished round; a discard is
\* accepted only from the turn player with HasDrawnThisTurn set and
\* HasDiscardedThisTurn clear in an unfinished round, and sets
\* HasDiscardedThisTurn or moves the turn.
C29_DrawDiscardOrdering ==
    [][/\ AcceptedDraw =>
              /\ ~state.HasDrawnThisTurn
              /\ state.TurnPlayerID = lastAction'.PlayerID
              /\ state'.HasDrawnThisTurn
              /\ state'.TurnPlayerID = state.TurnPlayerID
       /\ (~state.HasDrawnThisTurn /\ state'.HasDrawnThisTurn) => AcceptedDraw
       /\ (state.HasDrawnThisTurn /\ ~state'.HasDrawnThisTurn) =>
              state'.TurnPlayerID # state.TurnPlayerID
       /\ (state.HasDiscardedThisTurn /\ ~state'.HasDiscardedThisTurn) =>
              state'.TurnPlayerID # state.TurnPlayerID
       /\ (state'.TurnPlayerID # state.TurnPlayerID /\ state'.HasDrawnThisTurn) =>
              state'.IsRoundFinished
       /\ AcceptedDiscard =>
              /\ state.HasDrawnThisTurn
              /\ ~state.HasDiscardedThisTurn
              /\ ~state.IsRoundFinished
              /\ state.TurnPlayerID = lastAction'.PlayerID
              /\ \/ state'.HasDiscardedThisTurn
                 \/ state'.TurnPlayerID # state.TurnPlayerID]_vars

\* player 1, who drew first in round 1, has drawn again in round 2
C29_Witness ==
    /\ state.RoundNumber = 2
    /\ lastCall = "RunAction"
    /\ lastErr = ""
    /\ lastAction.Name \in {DRAW_FROM_DRAW_PILE, DRAW_FROM_DISCARD_PILE}
    /\ lastAction.PlayerID = 1
    /\ state.RoundsLog[2].ActionsLog[1].PlayerID = 1
    /\ state.RoundsLog[2].ActionsLog[1].Action.name
           \in {DRAW_FROM_DRAW_PILE, DRAW_FROM_DISCARD_PILE}
    /\ state.HasDrawnThisTurn

\* C30: in a finished round of a game that has not ended, when exactly one
\* player has confirmed, the turn player RunAction leaves is the player who
\* has not confirmed.
C30_ConfirmationSpotlight ==
    (/\ lastCall = "RunAction"
     /\ state.IsRoundFinished
     /\ ~state.IsGameEnded
     /\ Cardinality(state.RoundFinishedConfirmedPlayerIDs) = 1) =>
        state.TurnPlayerID \notin state.RoundFinishedConfirmedPlayerIDs

\* player 0 knocked and was the first to confirm: the turn is with player 1
C30_Witness ==
    /\ lastCall = "RunAction"
    /\ lastErr = ""
    /\ lastAction = NewActionConfirmRoundFinished(0)
    /\ state.IsRoundFinished
    /\ ~state.IsGameEnded
    /\ state.KnockedPlayerID = 0
    /\ state.RoundFinishedConfirmedPlayerIDs = {0}
    /\ state.TurnPlayerID = 1

\* the rule of a meld's type: at least 3 cards; a set is of one rank with no
\* suit twice; a run is of one suit and its numbers, no number twice, fill
\* the stretch from the lowest to the highest
MeldRule(meld) ==
    LET cards == meld.Cards
        numbers == {cards[i].Number : i \in 1..Len(cards)}
    IN /\ Len(cards) >= 3
       /\ meld.Type \in {MeldTypeSet, MeldTypeRun}
       /\ meld.Type = MeldTypeSet =>
              /\ Cardinality(numbers) = 1
              /\ Cardinality({cards[i].Suit : i \in 1..Len(cards)}) = Len(cards)
       /\ meld.Type = MeldTypeRun =>
              /\ Cardinality({cards[i].Suit : i \in 1..Len(cards)}) = 1
              /\ Cardinality(numbers) = Len(cards)
              /\ \A n \in numbers : \A m \in numbers :
                     n < m => \A k \in (n + 1)..(m - 1) : k \in numbers

\* C31: in every reachable state every meld of either player has at least 3
\* cards that follow the rule of its type, and each card of a meld is in
\* that meld once and nowhere else: in no other meld, no hand and no pile.
C31_MeldIntegrity ==
    /\ \A p \in PlayerIDs : \A i \in 1..Len(state.Players[p].Melds) :
           MeldRule(state.Players[p].Melds[i])
    /\ LET cards == CardsInPlay(state)
           melded == MeldCardsOf(state.Players[0].Melds)
                         \o MeldCardsOf(state.Players[1].Melds)
       IN \A i \in 1..Len(melded) :
              Cardinality({j \in 1..Len(cards) : cards[j] = melded[i]}) = 1

\* player 1 has laid down a run and then a second meld, one of them of four
\* cards, and both players still hold cards
C31_Witness ==
    /\ Len(state.Players[1].Melds) = 2
    /\ state.Players[1].Melds[1].Type = MeldTypeRun
    /\ \E i \in 1..2 : Len(state.Players[1].Melds[i].Cards) = 4
    /\ state.Players[0].Hand.Revealed # <<>>
    /\ state.DiscardPile.Cards # <<>>

\* C32: in every reachable state the turn player and the turn opponent are
\* the two distinct ids 0 and 1, KnockedPlayerID is -1 exactly when the
\* round is not finished, and WinnerPlayerID is -1 exactly when the game
\* has not ended.
C32_StatusFlags ==
    /\ {state.TurnPlayerID, state.TurnOpponentPlayerID} = {0, 1}
    /\ (state.KnockedPlayerID = -1) <=> ~state.IsRoundFinished
    /\ (state.WinnerPlayerID = -1) <=> ~state.IsGameEnded

\* player 0 knocked in the turn of player 0, the round is finished, and the
\* game has ended with a winner
C32_Witness ==
    /\ state.TurnPlayerID = 0
    /\ state.TurnOpponentPlayerID = 1
    /\ state.KnockedPlayerID = 0
    /\ state.IsRoundFinished
    /\ state.IsGameEnded
    /\ state.WinnerPlayerID \in PlayerIDs

\* C33: in every reachable state every action of the legal set computed for
\* that state, in whichever order the confirmed-set is iterated, is accepted
\* by RunAction when it is submitted next.
C33_LegalSetSoundness ==
    \A ord \in MapOrders :
        \A a \in Range(CalculatePossibleActions(state, ord)) :
            \A r \in RunAction(state, a) : r.err = ""

=============================================================================
